---- MODULE Spec2Model ----
(***************************************************************************)
(* File splitter / reconstructer (src/src/main.rs).                        *)
(*                                                                         *)
(* split_file reads a source file and writes it as chunk files             *)
(* "chunk000", "chunk001", ... plus a metadata file "info.json" into a     *)
(* directory; reconstruct_file reads the metadata, lists the entries whose *)
(* name starts with "chunk", sorts them and concatenates them into an      *)
(* output file in the same directory.                                      *)
(*                                                                         *)
(* File names and file contents are sequences of byte values.  Names of    *)
(* the model are ASCII, or the single byte 255 (a name that is not valid   *)
(* UTF-8).  The filesystem of the model is one source file and one chunk   *)
(* directory.                                                              *)
(***************************************************************************)
EXTENDS Integers, Sequences, FiniteSets, TLC

VARIABLES
    src,          \* the source file: [exists, name, data]
    dir,          \* the chunk directory: [exists, files], files: name -> bytes
    pc,           \* "idle" | "split_loop" | "recon_loop"
    op,           \* the call in progress or last completed: "none" | "split" | "recon"
    result,       \* what the last completed call returned
    hist,         \* the completed calls, in order: <<op, ok>>
    faults,       \* I/O failures injected so far
    io_copy,      \* the io::copy of the build: "kernel" | "generic"
    input_pos,    \* split_file: read position of input_file
    chunk_index,  \* split_file: chunk_index
    name,         \* reconstruct_file: name
    chunk_files,  \* reconstruct_file: the sorted chunk paths not yet copied
    chunk_pos,    \* reconstruct_file: read position of chunk_file
    output_buf,   \* reconstruct_file: bytes held by the BufWriter output_file
    dir0,         \* history: the directory when the call started
    srcOpened,    \* history: the call opened the source (File::open, line 95)
    handed,       \* history: name -> bytes the call handed to write calls
    metaBySplit   \* history: <<content>> of info.json as split_file wrote it, or <<>>

vars == <<src, dir, pc, op, result, hist, faults, io_copy, input_pos, chunk_index, name,
          chunk_files, chunk_pos, output_buf, dir0, srcOpened, handed, metaBySplit>>

(***************************************************************************)
(* Bounds of the model.                                                    *)
(***************************************************************************)
\* CHUNK_SIZE is 5 * 1024 * 1024 in the source; the model scales it down.
CHUNK_SIZE == 2
\* Capacity of a BufWriter (8 KiB in std, below CHUNK_SIZE); scaled down.
BufCap == 2
\* Longest source file.
MaxLen == 4
\* Capacity of the disk for one file: a write beyond it fails (ENOSPC).
MaxFileLen == 6
\* I/O failures the environment may inject in one behaviour.
MaxFaults == 1
\* Calls of split_file / reconstruct_file in one behaviour.
MaxCalls == 2
\* Chunk names written in the ordering specification.
MaxChunks == 1002

\* Width of the zero padding in format!("chunk{:03}", chunk_index).
PadWidth == 3

Min(a, b) == IF a < b THEN a ELSE b

(***************************************************************************)
(* Names.                                                                  *)
(***************************************************************************)
\* "chunk"
Tag == <<99, 104, 117, 110, 107>>
\* "info.json"
InfoName == <<105, 110, 102, 111, 46, 106, 115, 111, 110>>
\* "reconstructed_file"
DefaultName ==
    <<114, 101, 99, 111, 110, 115, 116, 114, 117, 99, 116, 101, 100, 95,
      102, 105, 108, 101>>
\* "a", "chunkz", "chunk000", and a name that is not UTF-8
NameA == <<97>>
NameChunkZ == Tag \o <<122>>
NameChunk000 == Tag \o <<48, 48, 48>>
NameNotUtf8 == <<255>>

SrcNames == {NameA, NameChunkZ, NameChunk000, InfoName, NameNotUtf8}

\* The decimal digits of i, most significant first.
RECURSIVE Digits(_)
Digits(i) == IF i < 10 THEN <<48 + i>> ELSE Digits(i \div 10) \o <<48 + (i % 10)>>

RECURSIVE ZeroPad(_, _)
ZeroPad(s, w) == IF Len(s) >= w THEN s ELSE ZeroPad(<<48>> \o s, w)

ChunkName_Pad2(i) == Tag \o ZeroPad(Digits(i), 2)

\* format!("chunk{:03}", chunk_index)
ChunkName(i) == Tag \o ZeroPad(Digits(i), PadWidth)

\* str::starts_with
StartsWith(s, p) == Len(s) >= Len(p) /\ SubSeq(s, 1, Len(p)) = p

\* Ord of paths in the same directory: byte-wise lexicographic order of the names.
LexLess(a, b) ==
    \/ Len(a) < Len(b) /\ SubSeq(b, 1, Len(a)) = a
    \/ \E i \in 1..Min(Len(a), Len(b)) :
          /\ a[i] < b[i]
          /\ \A j \in 1..(i - 1) : a[j] = b[j]

\* s with x put at its place in the order; s is sorted.
InsertSorted(s, x) ==
    LET p == Cardinality({i \in 1..Len(s) : LexLess(s[i], x)})
    IN  [i \in 1..(Len(s) + 1) |->
            IF i <= p THEN s[i] ELSE IF i = p + 1 THEN x ELSE s[i - 1]]

RECURSIVE SortNames(_)
\* Vec::sort of the paths of a set of names
SortNames(S) ==
    IF S = {} THEN <<>>
    ELSE LET x == CHOOSE y \in S : TRUE
         IN  InsertSorted(SortNames(S \ {x}), x)

(***************************************************************************)
(* The metadata document.                                                  *)
(***************************************************************************)
\* OsStr::to_string_lossy: a byte that is not UTF-8 becomes U+FFFD (EF BF BD).
RECURSIVE ToStringLossy(_)
ToStringLossy(s) ==
    IF s = <<>> THEN <<>>
    ELSE (IF Head(s) >= 128 THEN <<239, 191, 189>> ELSE <<Head(s)>>)
         \o ToStringLossy(Tail(s))

\* String::from_utf8 on the model's contents: ASCII and U+FFFD are valid.
RECURSIVE IsUtf8(_)
IsUtf8(s) ==
    IF s = <<>> THEN TRUE
    ELSE IF Head(s) < 128 THEN IsUtf8(Tail(s))
    ELSE /\ Len(s) >= 3
         /\ SubSeq(s, 1, 3) = <<239, 191, 189>>
         /\ IsUtf8(SubSeq(s, 4, Len(s)))

\* serde_json's escaping of a string: '"' and '\' get a backslash.
RECURSIVE Escape(_)
Escape(s) ==
    IF s = <<>> THEN <<>>
    ELSE (IF Head(s) \in {34, 92} THEN <<92, Head(s)>> ELSE <<Head(s)>>)
         \o Escape(Tail(s))

\* The body of a JSON string: <<TRUE, decoded>>, or <<FALSE, <<>>>> when it is
\* not one (a raw quote, a control character, a dangling backslash).
RECURSIVE Unescape(_)
Unescape(s) ==
    IF s = <<>> THEN <<TRUE, <<>>>>
    ELSE IF Head(s) = 92
         THEN IF Len(s) >= 2 /\ s[2] \in {34, 92}
              THEN LET r == Unescape(SubSeq(s, 3, Len(s)))
                   IN  <<r[1], <<s[2]>> \o r[2]>>
              ELSE <<FALSE, <<>>>>
    ELSE IF Head(s) = 34 \/ Head(s) < 32 THEN <<FALSE, <<>>>>
    ELSE LET r == Unescape(Tail(s))
         IN  <<r[1], <<Head(s)>> \o r[2]>>

\* {"original_filename":"
JsonPrefix ==
    <<123, 34, 111, 114, 105, 103, 105, 110, 97, 108, 95, 102, 105, 108, 101,
      110, 97, 109, 101, 34, 58, 34>>
\* "}
JsonSuffix == <<34, 125>>

\* serde_json::to_string(&json!({"original_filename": file_name.to_string_lossy()}))
ToJson(n) == JsonPrefix \o Escape(ToStringLossy(n)) \o JsonSuffix

\* from_str::<Value>(&data).ok().and_then(|v| v.get("original_filename")
\*   .and_then(|n| n.as_str()...)): <<name>>, or <<>> for None.  On the contents
\* of the model a document holds the string field exactly when it has the shape
\* ToJson writes.
ParseOriginalFilename(data) ==
    LET n == Len(data)
        lp == Len(JsonPrefix)
        ls == Len(JsonSuffix)
    IN  IF /\ n >= lp + ls
           /\ SubSeq(data, 1, lp) = JsonPrefix
           /\ SubSeq(data, n - ls + 1, n) = JsonSuffix
        THEN LET r == Unescape(SubSeq(data, lp + 1, n - ls))
             IN  IF r[1] THEN <<r[2]>> ELSE <<>>
        ELSE <<>>

(***************************************************************************)
(* The filesystem.                                                         *)
(***************************************************************************)
EmptyFiles == [n \in {} |-> <<>>]

Put(files, n, c) == [x \in (DOMAIN files) \cup {n} |-> IF x = n THEN c ELSE files[x]]

NoDir == [exists |-> FALSE, files |-> EmptyFiles]
EmptyDir == [exists |-> TRUE, files |-> EmptyFiles]

DirIsEmpty_NoInfo(d) == InfoName \notin DOMAIN d.files

\* fs::read_dir(savedir)?.next().is_some(), negated
DirIsEmpty(d) == DOMAIN d.files = {}

\* read_dir(directory) filtered by starts_with("chunk")
ChunkEntries(d) == {n \in DOMAIN d.files : StartsWith(n, Tag)}

\* chunk_files after chunk_files.sort()
ChunkFiles(d) == SortNames(ChunkEntries(d))

RECURSIVE Concat(_, _)
\* the contents of the files named by the sequence ns, one after the other
Concat(files, ns) ==
    IF ns = <<>> THEN <<>> ELSE files[Head(ns)] \o Concat(files, Tail(ns))

(***************************************************************************)
(* Results and initial states.                                             *)
(***************************************************************************)
\* io::Result: Ok(val), or Err of an ErrorKind raised at a step of the code.
Ok(v) == [ok |-> TRUE, val |-> v, kind |-> "Ok", at |-> "return"]
Err(k, a) == [ok |-> FALSE, val |-> <<>>, kind |-> k, at |-> a]
NoResult == [ok |-> FALSE, val |-> <<>>, kind |-> "none", at |-> "none"]

\* The content of a source of n bytes: every byte differs, so that a byte lost,
\* repeated or out of place shows.
Data(n) == [i \in 1..n |-> i]

\* The source files a caller may name: an existing file, or a path with no file.
Sources ==
    {[exists |-> TRUE, name |-> n, data |-> Data(l)] : n \in SrcNames, l \in 0..MaxLen}
    \cup {[exists |-> FALSE, name |-> n, data |-> <<>>] : n \in SrcNames}

\* Contents an info.json may have that split_file did not write: "{}", "x",
\* {"original_filename":1}, and a byte that is not UTF-8.
BadMetas ==
    { <<123, 125>>,
      <<120>>,
      SubSeq(JsonPrefix, 1, Len(JsonPrefix) - 1) \o <<49, 125>>,
      <<255>> }

\* A chunk set with a gap (no chunk001), beside files left by earlier runs.
StaleFiles ==
    Put(Put(Put(Put(EmptyFiles, ChunkName(0), <<1, 2>>), ChunkName(2), <<2>>),
            NameA, <<2, 1>>), DefaultName, <<1>>)

\* The populated directories a caller may name.
PopulatedDirs ==
    {[exists |-> TRUE, files |-> Put(EmptyFiles, NameA, <<1>>)],
     [exists |-> TRUE, files |-> StaleFiles]}
    \cup {[exists |-> TRUE, files |-> Put(StaleFiles, InfoName, m)] : m \in BadMetas}
    \cup {[exists |-> TRUE, files |-> Put(StaleFiles, InfoName, ToJson(n))] :
            n \in {NameA, NameChunkZ, NameChunk000}}

\* The sources tried against a populated directory.
FewSources ==
    {[exists |-> TRUE, name |-> NameA, data |-> <<1, 2>>],
     [exists |-> FALSE, name |-> NameA, data |-> <<>>]}

Init ==
    /\ \/ dir \in {NoDir, EmptyDir} /\ src \in Sources
       \/ dir \in PopulatedDirs /\ src \in FewSources
    /\ pc = "idle"
    /\ op = "none"
    /\ result = NoResult
    /\ hist = <<>>
    /\ faults = 0
    /\ io_copy \in {"kernel", "generic"}
    /\ input_pos = 0
    /\ chunk_index = 0
    /\ name = <<>>
    /\ chunk_files = <<>>
    /\ chunk_pos = 0
    /\ output_buf = <<>>
    /\ dir0 = dir
    /\ srcOpened = FALSE
    /\ handed = EmptyFiles
    /\ metaBySplit = <<>>

CanCall == pc = "idle" /\ Len(hist) < MaxCalls
CanFail == faults < MaxFaults

\* A call returns r: the locals are dropped.
Return(o, r) ==
    /\ pc' = "idle"
    /\ op' = o
    /\ result' = r
    /\ hist' = Append(hist, <<o, r.ok>>)
    /\ input_pos' = 0
    /\ chunk_index' = 0
    /\ name' = <<>>
    /\ chunk_files' = <<>>
    /\ chunk_pos' = 0
    /\ output_buf' = <<>>

(***************************************************************************)
(* main: the "Split file" branch refuses a path that is no file.           *)
(***************************************************************************)
MainSplitMissing ==
    /\ CanCall
    /\ ~src.exists
    /\ Return("main", Err("exit1", "is_file"))
    /\ dir0' = dir
    /\ srcOpened' = FALSE
    /\ handed' = EmptyFiles
    /\ UNCHANGED <<src, io_copy, dir, faults, metaBySplit>>

(***************************************************************************)
(* split_file(input_path, savedir).  Its contract is stated for any        *)
(* caller; main calls it after its is_file test.                           *)
(***************************************************************************)
\* savedir after `if !savedir.exists() { fs::create_dir_all(savedir)?; }`
Created(d) == IF d.exists THEN d ELSE EmptyDir

\* The directory is not empty: Err(AlreadyExists) before anything is written.
SplitNotEmpty ==
    /\ CanCall
    /\ ~DirIsEmpty(Created(dir))
    /\ dir' = Created(dir)
    /\ Return("split", Err("AlreadyExists", "read_dir"))
    /\ dir0' = dir
    /\ srcOpened' = FALSE
    /\ handed' = EmptyFiles
    /\ UNCHANGED <<src, io_copy, faults, metaBySplit>>

\* fs::write(info.json) fails: the file was not created, or was created empty.
SplitInfoFail ==
    /\ CanCall /\ CanFail
    /\ DirIsEmpty(Created(dir))
    /\ \E created \in BOOLEAN :
          dir' = IF created
                 THEN [exists |-> TRUE, files |-> Put(Created(dir).files, InfoName, <<>>)]
                 ELSE Created(dir)
    /\ faults' = faults + 1
    /\ Return("split", Err("Io", "write_info"))
    /\ dir0' = dir
    /\ srcOpened' = FALSE
    /\ handed' = Put(EmptyFiles, InfoName, ToJson(src.name))
    /\ UNCHANGED <<src, io_copy, metaBySplit>>

\* info.json is written, then File::open(input_path) fails: NotFound when there
\* is no such file, an injected failure otherwise.
SplitOpenFail ==
    /\ CanCall
    /\ DirIsEmpty(Created(dir))
    /\ dir' = [exists |-> TRUE, files |-> Put(Created(dir).files, InfoName, ToJson(src.name))]
    /\ metaBySplit' = <<ToJson(src.name)>>
    /\ IF src.exists
       THEN /\ CanFail
            /\ faults' = faults + 1
            /\ Return("split", Err("Io", "open_input"))
       ELSE /\ faults' = faults
            /\ Return("split", Err("NotFound", "open_input"))
    /\ dir0' = dir
    /\ srcOpened' = FALSE
    /\ handed' = Put(EmptyFiles, InfoName, ToJson(src.name))
    /\ UNCHANGED <<src, io_copy>>

\* Lines 72-97 succeed: the loop starts.
SplitOpen ==
    /\ CanCall
    /\ DirIsEmpty(Created(dir))
    /\ src.exists
    /\ dir' = [exists |-> TRUE, files |-> Put(Created(dir).files, InfoName, ToJson(src.name))]
    /\ metaBySplit' = <<ToJson(src.name)>>
    /\ pc' = "split_loop"
    /\ op' = "split"
    /\ input_pos' = 0
    /\ chunk_index' = 0
    /\ dir0' = dir
    /\ srcOpened' = TRUE
    /\ handed' = Put(EmptyFiles, InfoName, ToJson(src.name))
    /\ UNCHANGED <<src, io_copy, result, hist, faults, name, chunk_files, chunk_pos, output_buf>>

\* What one input_file.read(&mut buffer) may return with `remaining` bytes left:
\* Read::read may return fewer bytes than the buffer holds.
ReadSizes(remaining) == 1..Min(remaining, CHUNK_SIZE)

\* One turn of the loop (lines 100-110): read, create the chunk, write_all into
\* a BufWriter, drop it.  Fewer than BufCap bytes stay in the BufWriter until
\* its drop, which flushes and ignores a failure of the flush (`lost`).
SplitChunk ==
    /\ pc = "split_loop"
    /\ input_pos < Len(src.data)
    /\ \E k \in ReadSizes(Len(src.data) - input_pos), lost \in BOOLEAN :
          LET data == SubSeq(src.data, input_pos + 1, input_pos + k)
              cn == ChunkName(chunk_index)
          IN  /\ lost => (k < BufCap /\ CanFail)
              /\ dir' = [dir EXCEPT !.files = Put(@, cn, IF lost THEN <<>> ELSE data)]
              /\ faults' = IF lost THEN faults + 1 ELSE faults
              /\ handed' = Put(handed, cn, data)
              /\ input_pos' = input_pos + k
              /\ chunk_index' = chunk_index + 1
    /\ UNCHANGED <<src, io_copy, pc, op, result, hist, name, chunk_files, chunk_pos,
                   output_buf, dir0, srcOpened, metaBySplit>>

\* A failure the loop propagates: of the read, of File::create, or of a
\* write_all that goes straight to the file (CHUNK_SIZE bytes or more than BufCap).
SplitChunkFail ==
    /\ pc = "split_loop"
    /\ CanFail
    /\ \E at \in {"read", "create_chunk", "write_chunk"} :
          /\ at # "read" => input_pos < Len(src.data)
          /\ \E k \in ReadSizes(Len(src.data) - input_pos) \cup {0} :
                LET cn == ChunkName(chunk_index)
                IN  /\ (at = "read") = (k = 0)
                    /\ at = "write_chunk" => k >= BufCap
                    /\ dir' = IF at = "write_chunk"
                              THEN [dir EXCEPT !.files = Put(@, cn, <<>>)]
                              ELSE dir
                    /\ handed' = IF at = "write_chunk"
                                 THEN Put(handed, cn,
                                          SubSeq(src.data, input_pos + 1, input_pos + k))
                                 ELSE handed
          /\ Return("split", Err("Io", at))
    /\ faults' = faults + 1
    /\ UNCHANGED <<src, io_copy, dir0, srcOpened, metaBySplit>>

\* read returns 0: `break`, Ok(()).
SplitEof ==
    /\ pc = "split_loop"
    /\ input_pos = Len(src.data)
    /\ Return("split", Ok(<<>>))
    /\ UNCHANGED <<src, io_copy, dir, faults, dir0, srcOpened, handed, metaBySplit>>

(***************************************************************************)
(* reconstruct_file(directory).                                            *)
(***************************************************************************)
\* Lines 34-46 when fs::read_to_string succeeds or info.json does not exist.
OutputName(d) ==
    IF InfoName \in DOMAIN d.files
    THEN LET v == ParseOriginalFilename(d.files[InfoName])
         IN  IF v = <<>> THEN DefaultName ELSE v[1]
    ELSE DefaultName

\* fs::read_to_string(&info_path) returns Err on contents that are not UTF-8.
MetaUnreadable(d) == InfoName \in DOMAIN d.files /\ ~IsUtf8(d.files[InfoName])

\* The directory does not exist: File::create(&output_path) fails.
ReconNoDir ==
    /\ CanCall
    /\ ~dir.exists
    /\ Return("recon", Err("NotFound", "create_output"))
    /\ dir0' = dir
    /\ srcOpened' = FALSE
    /\ handed' = EmptyFiles
    /\ UNCHANGED <<src, io_copy, dir, faults, metaBySplit>>

\* `fs::read_to_string(&info_path)?` returns the error of the read: the contents
\* are not UTF-8 (InvalidData), or the read itself fails.
ReconMetaFail ==
    /\ CanCall
    /\ dir.exists
    /\ InfoName \in DOMAIN dir.files
    /\ IF MetaUnreadable(dir)
       THEN /\ faults' = faults
            /\ Return("recon", Err("InvalidData", "read_metadata"))
       ELSE /\ CanFail
            /\ faults' = faults + 1
            /\ Return("recon", Err("Io", "read_metadata"))
    /\ dir0' = dir
    /\ srcOpened' = FALSE
    /\ handed' = EmptyFiles
    /\ UNCHANGED <<src, io_copy, dir, metaBySplit>>

\* File::create(&output_path) fails.
ReconCreateFail ==
    /\ CanCall /\ CanFail
    /\ dir.exists
    /\ ~MetaUnreadable(dir)
    /\ faults' = faults + 1
    /\ Return("recon", Err("Io", "create_output"))
    /\ dir0' = dir
    /\ srcOpened' = FALSE
    /\ handed' = EmptyFiles
    /\ UNCHANGED <<src, io_copy, dir, metaBySplit>>

\* Lines 34-58 succeed: the output is created (truncated), then the directory is
\* listed and the chunk paths sorted.
ReconStart ==
    /\ CanCall
    /\ dir.exists
    /\ ~MetaUnreadable(dir)
    /\ LET n == OutputName(dir)
           d == [dir EXCEPT !.files = Put(@, n, <<>>)]
       IN  /\ name' = n
           /\ dir' = d
           /\ chunk_files' = ChunkFiles(d)
           /\ handed' = Put(EmptyFiles, n, <<>>)
    /\ pc' = "recon_loop"
    /\ op' = "recon"
    /\ chunk_pos' = 0
    /\ output_buf' = <<>>
    /\ dir0' = dir
    /\ srcOpened' = FALSE
    /\ UNCHANGED <<src, io_copy, result, hist, faults, input_pos, chunk_index, metaBySplit>>

\* Bytes of the chunk being copied that its reader has not read yet.
Avail == Len(dir.files[Head(chunk_files)]) - chunk_pos

\* Bytes the call has written to output_file, flushed or not.
OutLen == Len(dir.files[name]) + Len(output_buf)

\* One read of io::copy(&mut chunk_file, &mut output_file) and the write of what it
\* read.  The "kernel" copy (file to file, Linux) flushes the BufWriter and has the
\* kernel move the bytes to the file itself.  The "generic" copy reads up to BufCap
\* bytes and hands them to BufWriter::write_all: flush when the bytes do not fit,
\* write through when they are BufCap or more, else keep them in the buffer.
ReconCopy ==
    /\ pc = "recon_loop"
    /\ chunk_files # <<>>
    /\ Avail > 0
    /\ \E k \in 1..Min(Avail, IF io_copy = "kernel" THEN CHUNK_SIZE ELSE BufCap) :
          LET direct == io_copy = "kernel"
              data == SubSeq(dir.files[Head(chunk_files)], chunk_pos + 1, chunk_pos + k)
              out == dir.files[name]
              flush == direct \/ k > BufCap - Len(output_buf)
              through == direct \/ k >= BufCap
              out1 == IF flush THEN out \o output_buf ELSE out
              buf1 == IF flush THEN <<>> ELSE output_buf
          IN  /\ OutLen + k <= MaxFileLen
              /\ dir' = [dir EXCEPT !.files[name] = IF through THEN out1 \o data ELSE out1]
              /\ output_buf' = IF through THEN buf1 ELSE buf1 \o data
              /\ handed' = [handed EXCEPT ![name] = @ \o data]
              /\ chunk_pos' = chunk_pos + k
    /\ UNCHANGED <<src, io_copy, pc, op, result, hist, faults, input_pos, chunk_index, name,
                   chunk_files, dir0, srcOpened, metaBySplit>>

\* The reader is at the end of its chunk: io::copy returns, the next chunk is next.
ReconNext ==
    /\ pc = "recon_loop"
    /\ chunk_files # <<>>
    /\ Avail = 0
    /\ chunk_files' = Tail(chunk_files)
    /\ chunk_pos' = 0
    /\ UNCHANGED <<src, io_copy, dir, pc, op, result, hist, faults, input_pos, chunk_index,
                   name, output_buf, dir0, srcOpened, handed, metaBySplit>>

\* A failure the loop propagates: File::open of a chunk, a read or a write of
\* io::copy.  The BufWriter is dropped and flushes what it holds.
ReconCopyFail ==
    /\ pc = "recon_loop"
    /\ chunk_files # <<>>
    /\ CanFail
    /\ \E at \in {"open_chunk", "copy"} :
          /\ at = "open_chunk" => chunk_pos = 0
          /\ Return("recon", Err("Io", at))
    /\ dir' = [dir EXCEPT !.files[name] = @ \o output_buf]
    /\ faults' = faults + 1
    /\ UNCHANGED <<src, io_copy, dir0, srcOpened, handed, metaBySplit>>

\* The disk is full: the write of io::copy fails, and so does the flush of the drop.
ReconDiskFull ==
    /\ pc = "recon_loop"
    /\ chunk_files # <<>>
    /\ Avail > 0
    /\ OutLen + 1 > MaxFileLen
    /\ Return("recon", Err("StorageFull", "copy"))
    /\ UNCHANGED <<src, io_copy, dir, faults, dir0, srcOpened, handed, metaBySplit>>

\* Every chunk is copied: Ok(name).  output_file is dropped without a flush of
\* the code's own: the drop flushes, and ignores a failure of that flush (`lost`).
ReconDone ==
    /\ pc = "recon_loop"
    /\ chunk_files = <<>>
    /\ \E lost \in BOOLEAN :
          /\ lost => (output_buf # <<>> /\ CanFail)
          /\ dir' = IF lost THEN dir ELSE [dir EXCEPT !.files[name] = @ \o output_buf]
          /\ faults' = IF lost THEN faults + 1 ELSE faults
    /\ Return("recon", Ok(name))
    /\ UNCHANGED <<src, io_copy, dir0, srcOpened, handed, metaBySplit>>

Next ==
    \/ MainSplitMissing
    \/ SplitNotEmpty
    \/ SplitInfoFail
    \/ SplitOpenFail
    \/ SplitOpen
    \/ SplitChunk
    \/ SplitChunkFail
    \/ SplitEof
    \/ ReconNoDir
    \/ ReconMetaFail
    \/ ReconCreateFail
    \/ ReconStart
    \/ ReconCopy
    \/ ReconNext
    \/ ReconCopyFail
    \/ ReconDiskFull
    \/ ReconDone

Spec == Init /\ [][Next]_vars

(***************************************************************************)
(* The order of the chunk names: split_file names chunk after chunk        *)
(* (line 105), reconstruct_file sorts the names it lists (line 58).  The   *)
(* sort of a listing that gained one name is the sorted listing with the   *)
(* name inserted.                                                          *)
(***************************************************************************)
InitOrder ==
    /\ src = [exists |-> FALSE, name |-> NameA, data |-> <<>>]
    /\ dir = EmptyDir
    /\ pc = "idle"
    /\ op = "order"
    /\ result = NoResult
    /\ hist = <<>>
    /\ faults = 0
    /\ io_copy = "kernel"
    /\ input_pos = 0
    /\ chunk_index = 0
    /\ name = <<>>
    /\ chunk_files = <<>>
    /\ chunk_pos = 0
    /\ output_buf = <<>>
    /\ dir0 = dir
    /\ srcOpened = FALSE
    /\ handed = EmptyFiles
    /\ metaBySplit = <<>>

OrderWriteAndSort ==
    /\ op = "order"
    /\ chunk_index < MaxChunks
    /\ chunk_files' = InsertSorted(chunk_files, ChunkName(chunk_index))
    /\ chunk_index' = chunk_index + 1
    /\ UNCHANGED <<src, io_copy, dir, pc, op, result, hist, faults, input_pos, name, chunk_pos,
                   output_buf, dir0, srcOpened, handed, metaBySplit>>

NextOrder == OrderWriteAndSort

SpecOrder == InitOrder /\ [][NextOrder]_vars

\* The names of the first n chunks in the order split_file writes them.
WriteOrder(n) == [i \in 1..n |-> ChunkName(i - 1)]

RECURSIVE Pow10(_)
Pow10(w) == IF w = 0 THEN 1 ELSE 10 * Pow10(w - 1)

(***************************************************************************)
(* The claims.                                                             *)
(***************************************************************************)
LastTwo(a, b) ==
    /\ Len(hist) >= 2
    /\ hist[Len(hist) - 1] = a
    /\ hist[Len(hist)] = b

\* C1 (round trip): when split_file of an existing source into an empty or absent
\* directory returned Ok and reconstruct_file of that directory then returned Ok,
\* the directory holds a file named like the source with the bytes of the source,
\* and reconstruct_file returned that name.  Stated for the runs in which no I/O
\* call fails.
C1_RoundTrip ==
    (faults = 0 /\ pc = "idle" /\ LastTwo(<<"split", TRUE>>, <<"recon", TRUE>>)) =>
        /\ result.val = src.name
        /\ src.name \in DOMAIN dir.files
        /\ dir.files[src.name] = src.data

\* C2 (chunk sizing): after split_file returned Ok for a source of N > 0 bytes the
\* chunk files are chunk000 .. chunk(c-1) with c = ceil(N / CHUNK_SIZE), all of
\* CHUNK_SIZE bytes except the last, which has N mod CHUNK_SIZE bytes (CHUNK_SIZE
\* when that is 0), whatever sizes the reads returned.  Stated for the runs in
\* which no I/O call fails.
C2_ChunkSizing ==
    (faults = 0 /\ pc = "idle" /\ op = "split" /\ result.ok /\ Len(src.data) > 0) =>
        LET N == Len(src.data)
            c == (N + CHUNK_SIZE - 1) \div CHUNK_SIZE
        IN  /\ ChunkEntries(dir) = {ChunkName(i) : i \in 0..(c - 1)}
            /\ \A i \in 0..(c - 2) : Len(dir.files[ChunkName(i)]) = CHUNK_SIZE
            /\ Len(dir.files[ChunkName(c - 1)]) =
                  IF N % CHUNK_SIZE = 0 THEN CHUNK_SIZE ELSE N % CHUNK_SIZE

\* C3 (missing source): split_file of a source path that does not exist returns
\* NotFound and leaves the target directory as it was before the call.  Stated for
\* a target directory that is absent or empty, and the runs in which no I/O call
\* fails.
C3_MissingSource ==
    (faults = 0 /\ pc = "idle" /\ op = "split" /\ ~src.exists /\ DirIsEmpty(dir0)) =>
        /\ result.kind = "NotFound"
        /\ dir = dir0

\* C4 (empty-directory precondition): split_file into a directory that holds any
\* entry returns the AlreadyExists error, leaves the directory's entries and
\* their contents unchanged, writes nothing and never opens the source.
C4_NonEmptyDirRefused ==
    (op = "split" /\ dir0.exists /\ DOMAIN dir0.files # {}) =>
        /\ pc = "idle"
        /\ result = Err("AlreadyExists", "read_dir")
        /\ dir = dir0
        /\ handed = EmptyFiles
        /\ ~srcOpened

\* C4's case: a second split_file into the directory an earlier split_file
\* filled was refused.
C4_Witness ==
    /\ LastTwo(<<"split", TRUE>>, <<"split", FALSE>>)
    /\ InfoName \in DOMAIN dir0.files
    /\ ChunkName(1) \in DOMAIN dir0.files
    /\ result.kind = "AlreadyExists"
    /\ dir = dir0

\* The metadata of d is missing, not readable as text, not a document, or has no
\* string field original_filename.
MetaBad(d) ==
    \/ InfoName \notin DOMAIN d.files
    \/ ~IsUtf8(d.files[InfoName])
    \/ ParseOriginalFilename(d.files[InfoName]) = <<>>

\* C5 (metadata fallback): reconstruct_file never fails at the metadata, and on a
\* directory whose metadata is missing or bad a call that returns Ok returns the
\* default name and has written the output under it.  Stated for the runs in
\* which no I/O call fails.
C5_MetadataFallback ==
    (faults = 0 /\ pc = "idle" /\ op = "recon" /\ dir0.exists) =>
        /\ result.at # "read_metadata"
        /\ (MetaBad(dir0) /\ result.ok) =>
              (result.val = DefaultName /\ DefaultName \in DOMAIN dir.files)

\* C6 (ordering), as stated: the sorted names are in write order for every count
\* up to 999, and are not once the count is 1000 or more.
C6_OrderLostFrom1000 ==
    op = "order" =>
        /\ chunk_index <= Pow10(PadWidth) - 1 => chunk_files = WriteOrder(chunk_index)
        /\ chunk_index >= Pow10(PadWidth) => chunk_files # WriteOrder(chunk_index)

\* C6 (ordering), amended: the sorted names are in write order for every count up
\* to 1000 (indices 0..999), and are not once the count exceeds 1000 (the name of
\* index 1000 sorts before that of index 101).
C6_OrderLostAbove1000 ==
    op = "order" =>
        /\ chunk_index <= Pow10(PadWidth) => chunk_files = WriteOrder(chunk_index)
        /\ chunk_index > Pow10(PadWidth) =>
              /\ chunk_files # WriteOrder(chunk_index)
              /\ LexLess(ChunkName(Pow10(PadWidth)), ChunkName(101))

\* C6's case: 1000 names in write order, and more than 1000 names out of it.
C6_Witness ==
    /\ op = "order"
    /\ chunk_index = Pow10(PadWidth) + 1
    /\ chunk_files # WriteOrder(chunk_index)
    /\ SubSeq(chunk_files, 1, 101) = WriteOrder(101)
    /\ chunk_files[102] = ChunkName(Pow10(PadWidth))

\* C7 (I/O failure propagation): when split_file or reconstruct_file returned Ok,
\* every file the call wrote holds every byte the call handed to its writer.
C7_OkMeansWritten ==
    (pc = "idle" /\ op \in {"split", "recon"} /\ result.ok) =>
        \A n \in DOMAIN handed : n \in DOMAIN dir.files /\ dir.files[n] = handed[n]

\* C8 (metadata immutability): once a split_file that returned Ok wrote info.json,
\* the file keeps that content through every later call.  Stated for the runs in
\* which no I/O call fails.
C8_MetadataNeverMutated ==
    (faults = 0 /\ metaBySplit # <<>> /\ hist # <<>> /\ hist[1] = <<"split", TRUE>>) =>
        /\ InfoName \in DOMAIN dir.files
        /\ dir.files[InfoName] = metaBySplit[1]

\* C9 (output content): when reconstruct_file returned Ok(name), the file of that
\* name holds the contents that the entries starting with "chunk" had before the
\* call, in ascending order of their names, and nothing else.  Stated for the runs
\* in which no I/O call fails.
C9_OutputIsConcatenation ==
    (faults = 0 /\ pc = "idle" /\ op = "recon" /\ result.ok) =>
        dir.files[result.val] = Concat(dir0.files, ChunkFiles(dir0))

\* C10 (run to completion): a call copies no more bytes than its input holds:
\* split_file the bytes of the source, reconstruct_file the bytes the entries
\* starting with "chunk" held when it was called.  Stated for the runs in which
\* no I/O call fails.
C10_BoundedCopy ==
    /\ pc = "split_loop" => input_pos <= Len(src.data)
    /\ (faults = 0 /\ pc = "recon_loop") =>
          Len(handed[name]) <= Len(Concat(dir0.files, ChunkFiles(dir0)))

====
